---- MODULE Spec2Model ----
(***************************************************************************)
(* Model of mycraft: the first-person camera (src/camera.rs), its          *)
(* controller, and the winit event loop of src/main.rs.                    *)
(*                                                                         *)
(* Arithmetic.  The program computes in f32; the model computes in exact   *)
(* real arithmetic (rounding is not modelled):                             *)
(*   - every cgmath::Rad value (camera angles, accumulated deltas) is an   *)
(*     integer number of micro-radians, so Rad(100.) is 100 * 10^6 and     *)
(*     "* 0.001" is an exact division by 1000;                             *)
(*   - cos and sin of the yaw are kept symbolic: a scalar built from them  *)
(*     is a linear form  c*cos(yaw) + s*sin(yaw) + k  (a "Lin"), with      *)
(*     cos(0) = 1 and sin(0) = 0 evaluated; the only trigonometric         *)
(*     identity used is cos^2 + sin^2 = 1;                                 *)
(*   - a position coordinate is an exact real in tenths of a unit, kept as *)
(*     a finite sum of terms  coef * f(|yaw|) / sqrt(n)  (a "Num"), with   *)
(*     f one of 1, cos, sin.                                               *)
(*                                                                         *)
(* Records.  A record constructor lists its fields in the order in which   *)
(* their names first appear in this module, which is the order TLC keeps   *)
(* them in: a record built that way is never reordered in place while a    *)
(* second TLC worker reads it.  The order of the fields of a Rust struct   *)
(* has no meaning in the program.                                          *)
(***************************************************************************)
EXTENDS Integers, Sequences, FiniteSets, TLC

VARIABLES
    camera,        \* Camera: position, angle_ground, angle_up, aspect, fovy, znear, zfar
    controller,    \* CameraController: speed, two deltas, six pressed flags
    last,          \* the call or event handled last, with its arguments and result
    before,        \* camera and controller as they were when that call started
    nupd,          \* number of update_camera calls so far
    nmotion,       \* number of pointer-motion events counted against the bound
    pointer,       \* sum of the offsets of those received with the cursor captured
    state,         \* State (src/main.rs): size, sc_desc, swap_chain, uniforms,
                   \* uniform_buffer, the queue's pending writes; its camera and
                   \* camera_controller are the variables camera and controller
    window,        \* the winit window's cursor: grabbed, visible, position
    control_flow,  \* *control_flow
    redraw_requested, \* window.request_redraw() called and not yet served
    presented,     \* the command buffer submitted last, with what its draw read
    calls,         \* what the arm of the closure that ran last called, in order
    frames         \* the results of the redraws served so far (kept by SpecFrames)

ctl_vars == <<camera, controller, last, before, nupd, nmotion, pointer>>

loop_vars == <<state, window, control_flow, redraw_requested, presented, calls,
              frames>>

vars == <<camera, controller, last, before, nupd, nmotion, pointer,
          state, window, control_flow, redraw_requested, presented, calls, frames>>

----------------------------------------------------------------------------
(* Bounds of the exploration *)

\* update_camera calls explored
MaxUpdates == 2
\* pointer-motion events explored between two updates
MaxMotions == 2
\* redraws of the event loop explored
MaxTicks == 1
\* pointer-motion events explored in one run of the event loop
MaxLoopMotions == 1

----------------------------------------------------------------------------
(* Exact arithmetic *)

Abs(x) == IF x < 0 THEN 0 - x ELSE x

Sign(x) == IF x < 0 THEN 0 - 1 ELSE IF x > 0 THEN 1 ELSE 0

\* cgmath::Rad(x) for x a whole number of radians (cgmath::Rad(delta.0 as f32))
Rad(x) == x * 1000000

\* a linear form c*cos(yaw) + s*sin(yaw) + k
Lin(c, s, k) == [c |-> c, s |-> s, k |-> k]

LinAdd(a, b) == Lin(a.c + b.c, a.s + b.s, a.k + b.k)

LinNeg(a) == Lin(0 - a.c, 0 - a.s, 0 - a.k)

\* Angle::cos(a), Angle::sin(a)
AngleCos(a) == IF a = 0 THEN Lin(0, 0, 1) ELSE Lin(1, 0, 0)

AngleSin(a) == IF a = 0 THEN Lin(0, 0, 0) ELSE Lin(0, 1, 0)

\* Vector3 + Vector3, -Vector3
VAdd(u, v) == <<LinAdd(u[1], v[1]), LinAdd(u[2], v[2]), LinAdd(u[3], v[3])>>

VNeg(u) == <<LinNeg(u[1]), LinNeg(u[2]), LinNeg(u[3])>>

ZERO == <<Lin(0, 0, 0), Lin(0, 0, 0), Lin(0, 0, 0)>>

unit_z == <<Lin(0, 0, 0), Lin(0, 0, 0), Lin(0, 0, 1)>>

\* the square of InnerSpace::magnitude(v): x*x + y*y + z*z, a polynomial in
\* cos and sin that cos^2 + sin^2 = 1 reduces to a number when the cos^2 and
\* sin^2 coefficients agree and no mixed or linear term is left (-1: the
\* magnitude depends on the yaw; no vector of this program does)
magnitude2(v) ==
    LET cc == v[1].c * v[1].c + v[2].c * v[2].c + v[3].c * v[3].c
        ss == v[1].s * v[1].s + v[2].s * v[2].s + v[3].s * v[3].s
        kk == v[1].k * v[1].k + v[2].k * v[2].k + v[3].k * v[3].k
        cs == v[1].c * v[1].s + v[2].c * v[2].s + v[3].c * v[3].s
        ck == v[1].c * v[1].k + v[2].c * v[2].k + v[3].c * v[3].k
        sk == v[1].s * v[1].k + v[2].s * v[2].k + v[3].s * v[3].k
    IN  IF cc = ss /\ cs = 0 /\ ck = 0 /\ sk = 0 THEN cc + kk ELSE 0 - 1

\* a Num holds nonzero coefficients only, so equal reals are equal Nums
NumAdd(x, key, coef) ==
    LET old == IF key \in DOMAIN x THEN x[key] ELSE 0
        new == old + coef
    IN  IF new = 0
        THEN [t \in DOMAIN x \ {key} |-> x[t]]
        ELSE [t \in DOMAIN x \cup {key} |-> IF t = key THEN new ELSE x[t]]

\* the whole number k of tenths
Tenths(k) == NumAdd(<<>>, <<"one", 0, 1>>, k)

\* x + l / sqrt(n) * speed, the linear form l taken at yaw a
\* (cos(-a) = cos(a), sin(-a) = -sin(a))
NumAddLin(x, l, a, n, speed) ==
    NumAdd(NumAdd(NumAdd(x,
        <<"cos", Abs(a), n>>, l.c * speed),
        <<"sin", Abs(a), n>>, l.s * speed * Sign(a)),
        <<"one", 0, n>>, l.k * speed)

RECURSIVE GCD(_, _)
GCD(a, b) == IF b = 0 THEN a ELSE GCD(b, a % b)

\* w as f32 / h as f32 for u32 w and h: a reduced fraction; 1/0 is +inf and
\* 0/0 is NaN
Ratio(w, h) ==
    LET g == GCD(w, h)
    IN  IF g = 0 THEN [num |-> 0, den |-> 0] ELSE [num |-> w \div g, den |-> h \div g]

----------------------------------------------------------------------------
(* Camera (src/camera.rs) *)

Camera_new(aspect) ==
    [ aspect       |-> aspect,
      position     |-> <<Tenths(0 - 100), Tenths(20), Tenths(10)>>,
      angle_ground |-> Rad(0),
      angle_up     |-> Rad(0),
      fovy         |-> 45,
      znear        |-> [num |-> 1, den |-> 10],
      zfar         |-> 100 ]

\* forward_direction rising with the pitch, as look_direction does
forward_direction_pitched(self) ==
    <<AngleCos(self.angle_ground), AngleSin(self.angle_ground),
      IF self.angle_up = 0 THEN Lin(0, 0, 0) ELSE Lin(0, 0, Sign(self.angle_up))>>

forward_direction(self) ==
    <<AngleCos(self.angle_ground), AngleSin(self.angle_ground), Lin(0, 0, 0)>>

right_direction(self) ==
    <<AngleSin(self.angle_ground), LinNeg(AngleCos(self.angle_ground)), Lin(0, 0, 0)>>

----------------------------------------------------------------------------
(* CameraController (src/camera.rs) *)

CameraController_new(speed) ==
    [ speed               |-> speed,
      angle_ground_delta  |-> Rad(0),
      angle_up_delta      |-> Rad(0),
      is_up_pressed       |-> FALSE,
      is_down_pressed     |-> FALSE,
      is_forward_pressed  |-> FALSE,
      is_backward_pressed |-> FALSE,
      is_left_pressed     |-> FALSE,
      is_right_pressed    |-> FALSE ]

\* process_events with the left (30) and backward (31) arms exchanged
process_events_left_backward_swapped(self, event) ==
    IF event.type = "KeyboardInput"
    THEN LET is_pressed == (event.state = "Pressed")
         IN  CASE event.scancode = 57 ->
                    [self |-> [self EXCEPT !.is_up_pressed = is_pressed], ret |-> TRUE]
               [] event.scancode = 42 ->
                    [self |-> [self EXCEPT !.is_down_pressed = is_pressed], ret |-> TRUE]
               [] event.scancode = 17 ->
                    [self |-> [self EXCEPT !.is_forward_pressed = is_pressed], ret |-> TRUE]
               [] event.scancode = 30 ->
                    [self |-> [self EXCEPT !.is_backward_pressed = is_pressed], ret |-> TRUE]
               [] event.scancode = 31 ->
                    [self |-> [self EXCEPT !.is_left_pressed = is_pressed], ret |-> TRUE]
               [] event.scancode = 32 ->
                    [self |-> [self EXCEPT !.is_right_pressed = is_pressed], ret |-> TRUE]
               [] OTHER ->
                    [self |-> self, ret |-> FALSE]
    ELSE [self |-> self, ret |-> FALSE]

\* the controller after the call, and the value returned
process_events(self, event) ==
    IF event.type = "KeyboardInput"
    THEN LET is_pressed == (event.state = "Pressed")
         IN  CASE event.scancode = 57 ->
                    [self |-> [self EXCEPT !.is_up_pressed = is_pressed], ret |-> TRUE]
               [] event.scancode = 42 ->
                    [self |-> [self EXCEPT !.is_down_pressed = is_pressed], ret |-> TRUE]
               [] event.scancode = 17 ->
                    [self |-> [self EXCEPT !.is_forward_pressed = is_pressed], ret |-> TRUE]
               [] event.scancode = 30 ->
                    [self |-> [self EXCEPT !.is_left_pressed = is_pressed], ret |-> TRUE]
               [] event.scancode = 31 ->
                    [self |-> [self EXCEPT !.is_backward_pressed = is_pressed], ret |-> TRUE]
               [] event.scancode = 32 ->
                    [self |-> [self EXCEPT !.is_right_pressed = is_pressed], ret |-> TRUE]
               [] OTHER ->
                    [self |-> self, ret |-> FALSE]
    ELSE [self |-> self, ret |-> FALSE]

\* process_device_event without the test of is_cursor_captured
process_device_event_ungated(self, event, is_cursor_captured) ==
    IF event.type = "MouseMotion"
    THEN [self |-> [self EXCEPT
                       !.angle_ground_delta = @ - Rad(event.delta[1]),
                       !.angle_up_delta     = @ - Rad(event.delta[2])],
          ret |-> TRUE]
    ELSE [self |-> self, ret |-> FALSE]

\* process_device_event adding the offsets instead of subtracting them
process_device_event_sign(self, event, is_cursor_captured) ==
    IF event.type = "MouseMotion"
    THEN IF is_cursor_captured
         THEN [self |-> [self EXCEPT
                            !.angle_ground_delta = @ + Rad(event.delta[1]),
                            !.angle_up_delta     = @ + Rad(event.delta[2])],
               ret |-> TRUE]
         ELSE [self |-> self, ret |-> FALSE]
    ELSE [self |-> self, ret |-> FALSE]

process_device_event(self, event, is_cursor_captured) ==
    IF event.type = "MouseMotion"
    THEN IF is_cursor_captured
         THEN [self |-> [self EXCEPT
                            !.angle_ground_delta = @ - Rad(event.delta[1]),
                            !.angle_up_delta     = @ - Rad(event.delta[2])],
               ret |-> TRUE]
         ELSE [self |-> self, ret |-> FALSE]
    ELSE [self |-> self, ret |-> FALSE]

\* direction with the backward term added instead of subtracted
direction_backward_not_negated(self, cam) ==
    VAdd(VAdd(VAdd(VAdd(VAdd(
        IF self.is_forward_pressed  THEN forward_direction(cam)       ELSE ZERO,
        IF self.is_backward_pressed THEN forward_direction(cam)       ELSE ZERO),
        IF self.is_right_pressed    THEN right_direction(cam)         ELSE ZERO),
        IF self.is_left_pressed     THEN VNeg(right_direction(cam))   ELSE ZERO),
        IF self.is_up_pressed       THEN unit_z                       ELSE ZERO),
        IF self.is_down_pressed     THEN VNeg(unit_z)                 ELSE ZERO)

\* the movement direction update_camera sums from the pressed flags
direction(self, cam) ==
    VAdd(VAdd(VAdd(VAdd(VAdd(
        IF self.is_forward_pressed  THEN forward_direction(cam)       ELSE ZERO,
        IF self.is_backward_pressed THEN VNeg(forward_direction(cam)) ELSE ZERO),
        IF self.is_right_pressed    THEN right_direction(cam)         ELSE ZERO),
        IF self.is_left_pressed     THEN VNeg(right_direction(cam))   ELSE ZERO),
        IF self.is_up_pressed       THEN unit_z                       ELSE ZERO),
        IF self.is_down_pressed     THEN VNeg(unit_z)                 ELSE ZERO)

\* Displace without the division by the magnitude
Displace_not_normalised(position, d, a, n, speed) ==
    << NumAddLin(position[1], d[1], a, 1, speed),
       NumAddLin(position[2], d[2], a, 1, speed),
       NumAddLin(position[3], d[3], a, 1, speed) >>

\* position + d / magnitude * speed, with n the square of the magnitude
Displace(position, d, a, n, speed) ==
    << NumAddLin(position[1], d[1], a, n, speed),
       NumAddLin(position[2], d[2], a, n, speed),
       NumAddLin(position[3], d[3], a, n, speed) >>

\* ResetDeltas forgetting the pitch delta
ResetDeltas_ground_only(self) ==
    [self EXCEPT !.angle_ground_delta = Rad(0)]

\* the accumulated deltas after update_camera
ResetDeltas(self) ==
    [self EXCEPT !.angle_ground_delta = Rad(0), !.angle_up_delta = Rad(0)]

\* update_camera assigning the scaled deltas to the angles instead of adding them
update_camera_assign(self, cam) ==
    LET d  == direction(self, cam)
        m2 == magnitude2(d)
        moved == IF m2 * 1000000 > 1
                 THEN [cam EXCEPT !.position =
                          Displace(@, d, cam.angle_ground, m2, self.speed)]
                 ELSE cam
    IN  [ camera |-> [moved EXCEPT
                        !.angle_ground = self.angle_ground_delta \div 1000,
                        !.angle_up     = self.angle_up_delta \div 1000],
          self   |-> ResetDeltas(self) ]

\* update_camera consuming the pressed flags it has moved by
update_camera_releases_keys(self, cam) ==
    LET d  == direction(self, cam)
        m2 == magnitude2(d)
        moved == IF m2 * 1000000 > 1
                 THEN [cam EXCEPT !.position =
                          Displace(@, d, cam.angle_ground, m2, self.speed)]
                 ELSE cam
    IN  [ camera |-> [moved EXCEPT
                        !.angle_ground = @ + self.angle_ground_delta \div 1000,
                        !.angle_up     = @ + self.angle_up_delta \div 1000],
          self   |-> ResetDeltas([self EXCEPT !.is_forward_pressed = FALSE]) ]

\* the controller and the camera after the call
update_camera(self, cam) ==
    LET d  == direction(self, cam)
        m2 == magnitude2(d)
        \* magnitude > 0.001, squared
        moved == IF m2 * 1000000 > 1
                 THEN [cam EXCEPT !.position =
                          Displace(@, d, cam.angle_ground, m2, self.speed)]
                 ELSE cam
    IN  [ camera |-> [moved EXCEPT
                        !.angle_ground = @ + self.angle_ground_delta \div 1000,
                        !.angle_up     = @ + self.angle_up_delta \div 1000],
          self   |-> ResetDeltas(self) ]

----------------------------------------------------------------------------
(* Inputs *)

\* the six movement scancodes, Escape (1) and a key the program ignores (16)
Scancodes == {57, 42, 17, 30, 31, 32, 1, 16}

KeyStates == {"Pressed", "Released"}

KeyboardInput(st, code) ==
    [state |-> st, type |-> "KeyboardInput", scancode |-> code,
     virtual_keycode |-> IF code = 1 THEN "Escape" ELSE "Other"]

\* pointer offsets (delta.0, delta.1) a motion event carries
MotionDeltas == {<<100, 0>>, <<0 - 100, 100>>}

MouseMotion(d) == [type |-> "MouseMotion", delta |-> d]

\* a device event that is no pointer motion
DeviceButton == [state |-> "Pressed", type |-> "Button", button |-> 1]

\* CameraController::new(0.2): the speed, in tenths
SpeedTenths == 2

BOOL6 == [ {"is_up_pressed", "is_down_pressed", "is_forward_pressed",
            "is_backward_pressed", "is_left_pressed", "is_right_pressed"} -> BOOLEAN ]

Flags(self) ==
    [f \in {"is_up_pressed", "is_down_pressed", "is_forward_pressed",
            "is_backward_pressed", "is_left_pressed", "is_right_pressed"} |-> self[f]]

\* the controller driven on its own: no State, no window, no event loop
LoopIdle ==
    /\ state = <<>>
    /\ window = <<>>
    /\ control_flow = "Poll"
    /\ redraw_requested = FALSE
    /\ presented = <<>>
    /\ calls = <<>>
    /\ frames = <<>>

\* the state a call starts from
Snapshot ==
    [camera |-> camera, controller |-> controller, nmotion |-> nmotion, pointer |-> pointer]

----------------------------------------------------------------------------
(* SpecUpd: update_camera applied to every controller and camera pose       *)

\* yaw and pitch values, in radians/10, and accumulated pointer deltas
PoseAngles == {0 - 1, 0, 1}

PendingDeltas == {0 - 100, 0, 200}

InitUpd ==
    /\ \E fl \in BOOL6, gd \in PendingDeltas, ud \in PendingDeltas :
          controller = [ speed               |-> SpeedTenths,
                         angle_ground_delta  |-> Rad(gd),
                         angle_up_delta      |-> Rad(ud),
                         is_up_pressed       |-> fl["is_up_pressed"],
                         is_down_pressed     |-> fl["is_down_pressed"],
                         is_forward_pressed  |-> fl["is_forward_pressed"],
                         is_backward_pressed |-> fl["is_backward_pressed"],
                         is_left_pressed     |-> fl["is_left_pressed"],
                         is_right_pressed    |-> fl["is_right_pressed"] ]
    /\ \E yaw \in PoseAngles, pitch \in PoseAngles :
          camera = [Camera_new(Ratio(800, 600)) EXCEPT
                       !.angle_ground = Rad(yaw) \div 10,
                       !.angle_up     = Rad(pitch) \div 10]
    /\ last = [op |-> "new"]
    /\ nupd = 0
    /\ nmotion = 0
    /\ pointer = <<0, 0>>
    /\ before = Snapshot
    /\ LoopIdle

UpdUpdate ==
    /\ nupd < MaxUpdates
    /\ LET r == update_camera(controller, camera)
       IN  /\ camera' = r.camera
           /\ controller' = r.self
    /\ last' = [op |-> "update_camera"]
    /\ before' = Snapshot
    /\ nupd' = nupd + 1
    /\ nmotion' = 0
    /\ pointer' = <<0, 0>>
    /\ UNCHANGED loop_vars

NextUpd == UpdUpdate

SpecUpd == InitUpd /\ [][NextUpd]_vars

----------------------------------------------------------------------------
(* SpecCtl: the controller of src/camera.rs driven call by call, from       *)
(* Camera::new and CameraController::new                                    *)

InitCtl ==
    /\ camera = Camera_new(Ratio(800, 600))
    /\ controller = CameraController_new(SpeedTenths)
    /\ last = [op |-> "new"]
    /\ nupd = 0
    /\ nmotion = 0
    /\ pointer = <<0, 0>>
    /\ before = Snapshot
    /\ LoopIdle

\* process_events on a keyboard event with one of the scancodes codes
Key(codes) ==
    \E st \in KeyStates, code \in codes :
        LET event == KeyboardInput(st, code)
            r == process_events(controller, event)
        IN  /\ controller' = r.self
            /\ last' = [event |-> event, ret |-> r.ret, op |-> "process_events"]
            /\ before' = Snapshot
            /\ UNCHANGED <<camera, nupd, nmotion, pointer, loop_vars>>

CtlKey == Key(Scancodes)

\* process_events on a window event that is no keyboard event
CtlOtherWindowEvent ==
    LET event == [type |-> "CursorMoved"]
        r == process_events(controller, event)
    IN  /\ controller' = r.self
        /\ last' = [event |-> event, ret |-> r.ret, op |-> "process_events"]
        /\ before' = Snapshot
        /\ UNCHANGED <<camera, nupd, nmotion, pointer, loop_vars>>

\* process_device_event on a pointer motion, the cursor captured or not
CtlMotion ==
    /\ nmotion < MaxMotions
    /\ \E d \in MotionDeltas, is_cursor_captured \in BOOLEAN :
        LET event == MouseMotion(d)
            r == process_device_event(controller, event, is_cursor_captured)
        IN  /\ controller' = r.self
            /\ last' = [event |-> event, ret |-> r.ret,
                        is_cursor_captured |-> is_cursor_captured,
                        op |-> "process_device_event"]
            /\ before' = Snapshot
            /\ nmotion' = nmotion + 1
            /\ pointer' = IF is_cursor_captured
                          THEN <<pointer[1] + d[1], pointer[2] + d[2]>>
                          ELSE pointer
            /\ UNCHANGED <<camera, nupd, loop_vars>>

\* process_device_event on a device event that is no pointer motion
CtlOtherDeviceEvent ==
    \E is_cursor_captured \in BOOLEAN :
        LET r == process_device_event(controller, DeviceButton, is_cursor_captured)
        IN  /\ controller' = r.self
            /\ last' = [event |-> DeviceButton, ret |-> r.ret,
                        is_cursor_captured |-> is_cursor_captured,
                        op |-> "process_device_event"]
            /\ before' = Snapshot
            /\ UNCHANGED <<camera, nupd, nmotion, pointer, loop_vars>>

CtlUpdate ==
    /\ nupd < MaxUpdates
    /\ LET r == update_camera(controller, camera)
       IN  /\ camera' = r.camera
           /\ controller' = r.self
    /\ last' = [op |-> "update_camera"]
    /\ before' = Snapshot
    /\ nupd' = nupd + 1
    /\ nmotion' = 0
    /\ pointer' = <<0, 0>>
    /\ UNCHANGED loop_vars

\* every event, no update: all 64 flag sets with pending deltas
NextCtl ==
    \/ CtlKey
    \/ CtlOtherWindowEvent
    \/ CtlMotion
    \/ CtlOtherDeviceEvent

SpecCtl == InitCtl /\ [][NextCtl]_vars

(* SpecFly: events and updates interleaved, the keyboard reduced to the     *)
(* forward key (17) and an unmapped key (16)                                *)

FlyKey == Key({17, 16})

NextFly ==
    \/ FlyKey
    \/ CtlMotion
    \/ CtlOtherDeviceEvent
    \/ CtlUpdate

SpecFly == InitCtl /\ [][NextFly]_vars

----------------------------------------------------------------------------
(* State and the event loop (src/main.rs).  CameraController::process_events *)
(* and update_camera of main.rs are, word for word, those of camera.rs and  *)
(* are modelled by the same operators; the struct literal of State::new     *)
(* builds the Camera that Camera::new builds.                               *)

\* Camera::look_direction: three products of cos and sin, kept as terms
look_direction(self) ==
    << <<"cos", self.angle_up, "cos", self.angle_ground>>,
       <<"cos", self.angle_up, "sin", self.angle_ground>>,
       <<"sin", self.angle_up>> >>

\* Camera::build_view_projection_matrix: proj * view, kept as a term
build_view_projection_matrix(self) ==
    [ l  |-> [ aspect |-> self.aspect, fovy |-> self.fovy, znear |-> self.znear,
               zfar |-> self.zfar, op |-> "perspective" ],
      op |-> "mul",
      r  |-> [ op |-> "look_at_rh", eye |-> self.position,
               dir |-> look_direction(self), up |-> "unit_z" ] ]

Uniforms_new == [view_proj |-> "identity"]

\* Uniforms::update_view_proj
update_view_proj(self, cam) ==
    [self EXCEPT !.view_proj =
        [l |-> "OPENGL_TO_WGPU_MATRIX", op |-> "mul", r |-> build_view_projection_matrix(cam)]]

\* CameraController::process_device_event of main.rs
main_process_device_event(self, event) ==
    IF event.type = "MouseMotion"
    THEN [self |-> [self EXCEPT
                       !.angle_ground_delta = @ - Rad(event.delta[1]),
                       !.angle_up_delta     = @ - Rad(event.delta[2])],
          ret |-> TRUE]
    ELSE [self |-> self, ret |-> FALSE]

\* State::new for a window of inner size size
State_new(size) ==
    LET sc_desc == [width |-> size[1], height |-> size[2]]
        cam == Camera_new(Ratio(sc_desc.width, sc_desc.height))
        uniforms == update_view_proj(Uniforms_new, cam)
    IN  [ camera            |-> cam,
          size              |-> size,
          sc_desc           |-> sc_desc,
          uniforms          |-> uniforms,
          swap_chain        |-> sc_desc,
          num_indices       |-> 36,
          camera_controller |-> CameraController_new(SpeedTenths),
          uniform_buffer    |-> uniforms,
          queue             |-> <<>> ]

\* State::resize building a new Camera for the new aspect
resize_camera_rebuilt(self, new_size) ==
    LET sc_desc == [width |-> new_size[1], height |-> new_size[2]]
    IN  [self EXCEPT
            !.size = new_size,
            !.sc_desc = sc_desc,
            !.swap_chain = sc_desc,
            !.camera = Camera_new(Ratio(sc_desc.width, sc_desc.height))]

\* State::resize without the assignment to camera.aspect
resize_aspect_kept(self, new_size) ==
    LET sc_desc == [width |-> new_size[1], height |-> new_size[2]]
    IN  [self EXCEPT
            !.size = new_size,
            !.sc_desc = sc_desc,
            !.swap_chain = sc_desc]

\* State::resize
resize(self, new_size) ==
    LET sc_desc == [width |-> new_size[1], height |-> new_size[2]]
    IN  [self EXCEPT
            !.size = new_size,
            !.sc_desc = sc_desc,
            !.swap_chain = sc_desc,
            !.camera.aspect = Ratio(sc_desc.width, sc_desc.height)]

\* State::input: the State after the call, and the value returned
input(self, event) ==
    LET r == process_events(self.camera_controller, event)
    IN  [self |-> [self EXCEPT !.camera_controller = r.self], ret |-> r.ret]

\* State::process_device_event turning the camera at once on a pointer motion
State_process_device_event_turns_camera(self, event) ==
    LET r == main_process_device_event(self.camera_controller, event)
    IN  [self |-> [self EXCEPT
                      !.camera_controller = r.self,
                      !.camera.angle_ground =
                          IF event.type = "MouseMotion"
                          THEN @ - (Rad(event.delta[1]) \div 1000)
                          ELSE @],
         ret |-> r.ret]

\* State::process_device_event
State_process_device_event(self, event) ==
    LET r == main_process_device_event(self.camera_controller, event)
    IN  [self |-> [self EXCEPT !.camera_controller = r.self], ret |-> r.ret]

\* State::update with the uniforms computed before the controller has moved
\* the camera
update_stale_camera(self) ==
    LET r == update_camera(self.camera_controller, self.camera)
        uniforms == update_view_proj(self.uniforms, self.camera)
    IN  [self EXCEPT
            !.camera_controller = r.self,
            !.camera = r.camera,
            !.uniforms = uniforms,
            !.queue = Append(@, uniforms)]

\* State::update; queue.write_buffer stages the write for the next submit
update(self) ==
    LET r == update_camera(self.camera_controller, self.camera)
        uniforms == update_view_proj(self.uniforms, r.camera)
    IN  [self EXCEPT
            !.camera_controller = r.self,
            !.camera = r.camera,
            !.uniforms = uniforms,
            !.queue = Append(@, uniforms)]

\* the uniform buffer once the writes staged in q are done, in order
RECURSIVE Flush(_, _)
Flush(buffer, q) == IF q = <<>> THEN buffer ELSE Flush(Head(q), Tail(q))

\* the results of swap_chain.get_current_frame()
FrameResults == {"Ok", "Lost", "OutOfMemory", "Outdated", "Timeout"}

\* State::render, get_current_frame() giving got: the State after the call,
\* the value returned and the command buffer submitted (<<>>: none)
render(self, got) ==
    IF got # "Ok"
    THEN [self |-> self, ret |-> got, submitted |-> <<>>]
    ELSE LET buffer == Flush(self.uniform_buffer, self.queue)
         IN  [ self |-> [self EXCEPT !.uniform_buffer = buffer, !.queue = <<>>],
               ret  |-> "Ok",
               submitted |->
                 << [ load        |-> "Clear",
                      pipeline    |-> "render_pipeline",
                      bind_groups |-> <<"diffuse_bind_group", "uniform_bind_group">>,
                      indices     |-> self.num_indices,
                      uniform     |-> buffer,
                      target      |-> self.swap_chain ] >> ]

\* the State the loop's closure owns
Self == state @@ [camera |-> camera, camera_controller |-> controller]

Store(s) ==
    /\ camera' = s.camera
    /\ controller' = s.camera_controller
    /\ state' = [f \in DOMAIN state |-> s[f]]

\* the inner size of the window at startup
InitialSize == <<800, 600>>

\* sizes a Resized or ScaleFactorChanged event carries
ResizeSizes == {<<1600, 900>>, <<0, 0>>}

\* places of the pointer in the window
CursorPositions == {<<0, 0>>}

\* the pointer offsets of the loop's motion events
LoopMotionDeltas == {<<100, 100>>}

\* the keys of the loop: forward (17) and Escape (1)
LoopScancodes == {17, 1}

\* window.set_cursor_grab(grab), which may fail and then changes nothing
set_cursor_grab(w, grab, ok) == IF ok THEN [w EXCEPT !.cursor_grab = grab] ELSE w

\* window.set_cursor_visible(visible)
set_cursor_visible(w, visible) == [w EXCEPT !.cursor_visible = visible]

\* the pointer is hidden: its motion is meant to turn the camera
Captured == ~window.cursor_visible

Init ==
    /\ LET s == State_new(InitialSize)
       IN  /\ camera = s.camera
           /\ controller = s.camera_controller
           /\ state = [f \in DOMAIN s \ {"camera", "camera_controller"} |-> s[f]]
    /\ \E ok \in BOOLEAN, pos \in CursorPositions :
          window = set_cursor_grab(
                      set_cursor_visible(
                         [cursor_grab |-> FALSE, cursor_visible |-> TRUE,
                          cursor_position |-> pos], FALSE),
                      TRUE, ok)
    /\ control_flow = "Poll"
    /\ redraw_requested = FALSE
    /\ presented = <<>>
    /\ calls = <<"State::new", "set_cursor_visible", "set_cursor_grab">>
    /\ frames = <<>>
    /\ last = [type |-> "Init"]
    /\ nupd = 0
    /\ nmotion = 0
    /\ pointer = <<0, 0>>
    /\ before = <<>>

\* the loop runs, and window and device events come before MainEventsCleared
Running == control_flow # "Exit"

Delivering == Running /\ ~redraw_requested

\* the arms of the closure, the Escape key also ending the loop
Dispatch_escape_exits(event) ==
    CASE event.type = "CloseRequested" ->
            /\ control_flow' = "Exit"
            /\ calls' = <<"input">>
            /\ UNCHANGED <<window, state, camera, controller>>
      [] event.type = "KeyboardInput" ->
            /\ IF event.state = "Pressed" /\ event.virtual_keycode = "Escape"
               THEN /\ \E ok \in BOOLEAN :
                          window' = set_cursor_visible(set_cursor_grab(window, FALSE, ok), TRUE)
                    /\ calls' = <<"input", "set_cursor_grab", "set_cursor_visible">>
                    /\ control_flow' = "Exit"
               ELSE /\ UNCHANGED <<window, control_flow>>
                    /\ calls' = <<"input">>
            /\ UNCHANGED <<state, camera, controller>>
      [] event.type = "MouseInput" /\ event.button = "Left" ->
            /\ \E ok \in BOOLEAN :
                  window' = set_cursor_visible(set_cursor_grab(window, TRUE, ok), FALSE)
            /\ calls' = <<"input", "set_cursor_grab", "set_cursor_visible">>
            /\ UNCHANGED <<control_flow, state, camera, controller>>
      [] event.type \in {"Resized", "ScaleFactorChanged"} ->
            /\ Store(resize(Self, event.size))
            /\ calls' = <<"input", "resize">>
            /\ UNCHANGED <<control_flow, window>>
      [] OTHER ->
            /\ calls' = <<"input">>
            /\ UNCHANGED <<control_flow, window, state, camera, controller>>

\* the arms of the closure for a window event the controller did not consume
Dispatch(event) ==
    CASE event.type = "CloseRequested" ->
            /\ control_flow' = "Exit"
            /\ calls' = <<"input">>
            /\ UNCHANGED <<window, state, camera, controller>>
      [] event.type = "KeyboardInput" ->
            /\ IF event.state = "Pressed" /\ event.virtual_keycode = "Escape"
               THEN /\ \E ok \in BOOLEAN :
                          window' = set_cursor_visible(set_cursor_grab(window, FALSE, ok), TRUE)
                    /\ calls' = <<"input", "set_cursor_grab", "set_cursor_visible">>
               ELSE /\ UNCHANGED window
                    /\ calls' = <<"input">>
            /\ UNCHANGED <<control_flow, state, camera, controller>>
      [] event.type = "MouseInput" /\ event.button = "Left" ->
            /\ \E ok \in BOOLEAN :
                  window' = set_cursor_visible(set_cursor_grab(window, TRUE, ok), FALSE)
            /\ calls' = <<"input", "set_cursor_grab", "set_cursor_visible">>
            /\ UNCHANGED <<control_flow, state, camera, controller>>
      [] event.type \in {"Resized", "ScaleFactorChanged"} ->
            /\ Store(resize(Self, event.size))
            /\ calls' = <<"input", "resize">>
            /\ UNCHANGED <<control_flow, window>>
      [] OTHER ->
            /\ calls' = <<"input">>
            /\ UNCHANGED <<control_flow, window, state, camera, controller>>

\* Event::WindowEvent
OnWindowEvent(event) ==
    /\ Delivering
    /\ LET r == input(Self, event)
       IN  IF r.ret
           THEN /\ Store(r.self)
                /\ calls' = <<"input">>
                /\ UNCHANGED <<control_flow, window>>
           ELSE Dispatch(event)
    /\ last' = event
    /\ UNCHANGED <<before, nupd, nmotion, pointer, redraw_requested, presented,
                   frames>>

KeyboardEvent ==
    \E st \in KeyStates, code \in LoopScancodes : OnWindowEvent(KeyboardInput(st, code))

CloseRequested == OnWindowEvent([type |-> "CloseRequested"])

MouseInput ==
    \E st \in KeyStates, button \in {"Left", "Right"} :
        OnWindowEvent([state |-> st, type |-> "MouseInput", button |-> button])

Resized == \E size \in ResizeSizes : OnWindowEvent([type |-> "Resized", size |-> size])

ScaleFactorChanged ==
    \E size \in ResizeSizes : OnWindowEvent([type |-> "ScaleFactorChanged", size |-> size])

\* WindowEvent::CursorMoved: the platform has moved the pointer to position;
\* the controller does not consume the event and no arm of the closure matches
CursorMoved ==
    \E position \in CursorPositions :
        /\ Delivering
        /\ window' = [window EXCEPT !.cursor_position = position]
        /\ last' = [position |-> position, type |-> "CursorMoved"]
        /\ calls' = <<"input">>
        /\ UNCHANGED <<camera, controller, state, control_flow, before, nupd,
                       nmotion, pointer, redraw_requested, presented, frames>>

\* Event::DeviceEvent
OnDeviceEvent(event) ==
    /\ Delivering
    /\ Store(State_process_device_event(Self, event).self)
    /\ calls' = <<"process_device_event">>
    /\ last' = event
    /\ UNCHANGED <<window, control_flow, before, nupd, pointer,
                   redraw_requested, presented, frames>>

DeviceMotion ==
    /\ nmotion < MaxLoopMotions
    /\ \E d \in LoopMotionDeltas : OnDeviceEvent(MouseMotion(d))
    /\ nmotion' = nmotion + 1

DeviceOther ==
    /\ OnDeviceEvent(DeviceButton)
    /\ UNCHANGED nmotion

\* Event::MainEventsCleared
MainEventsCleared ==
    /\ Delivering
    /\ redraw_requested' = TRUE
    /\ calls' = <<"request_redraw">>
    /\ last' = [type |-> "MainEventsCleared"]
    /\ UNCHANGED <<camera, controller, state, window, control_flow, before,
                   nupd, nmotion, pointer, presented, frames>>

\* Event::RedrawRequested with the lost surface rebuilt at the startup size
Redraw_lost_initial_size(got) ==
    /\ Running
    /\ redraw_requested
    /\ LET r == render(update(Self), got)
       IN  /\ CASE r.ret = "Ok" ->
                     /\ Store(r.self)
                     /\ calls' = <<"update", "render">>
                     /\ UNCHANGED control_flow
                [] r.ret = "Lost" ->
                     /\ Store(resize(r.self, InitialSize))
                     /\ calls' = <<"update", "render", "resize">>
                     /\ UNCHANGED control_flow
                [] r.ret = "OutOfMemory" ->
                     /\ Store(r.self)
                     /\ calls' = <<"update", "render">>
                     /\ control_flow' = "Exit"
                [] OTHER ->
                     /\ Store(r.self)
                     /\ calls' = <<"update", "render", "eprintln">>
                     /\ UNCHANGED control_flow
           /\ presented' = IF r.submitted = <<>> THEN presented ELSE r.submitted
           /\ last' = [type |-> "RedrawRequested", result |-> r.ret]
    /\ redraw_requested' = FALSE
    /\ nupd' = nupd + 1
    /\ UNCHANGED <<window, before, nmotion, pointer>>

\* Event::RedrawRequested with the swap chain rebuilt on every error but
\* out-of-memory
Redraw_outdated_rebuilds(got) ==
    /\ Running
    /\ redraw_requested
    /\ LET r == render(update(Self), got)
       IN  /\ CASE r.ret = "Ok" ->
                     /\ Store(r.self)
                     /\ calls' = <<"update", "render">>
                     /\ UNCHANGED control_flow
                [] r.ret = "Lost" ->
                     /\ Store(resize(r.self, r.self.size))
                     /\ calls' = <<"update", "render", "resize">>
                     /\ UNCHANGED control_flow
                [] r.ret = "OutOfMemory" ->
                     /\ Store(r.self)
                     /\ calls' = <<"update", "render">>
                     /\ control_flow' = "Exit"
                [] OTHER ->
                     /\ Store(resize(r.self, r.self.size))
                     /\ calls' = <<"update", "render", "resize">>
                     /\ UNCHANGED control_flow
           /\ presented' = IF r.submitted = <<>> THEN presented ELSE r.submitted
           /\ last' = [type |-> "RedrawRequested", result |-> r.ret]
    /\ redraw_requested' = FALSE
    /\ nupd' = nupd + 1
    /\ UNCHANGED <<window, before, nmotion, pointer>>

\* Event::RedrawRequested undoing the update of a frame that was not drawn
Redraw_failed_rolls_back(got) ==
    /\ Running
    /\ redraw_requested
    /\ LET r == render(update(Self), got)
       IN  /\ CASE r.ret = "Ok" ->
                     /\ Store(r.self)
                     /\ calls' = <<"update", "render">>
                     /\ UNCHANGED control_flow
                [] r.ret = "Lost" ->
                     /\ Store(resize(Self, Self.size))
                     /\ calls' = <<"update", "render", "resize">>
                     /\ UNCHANGED control_flow
                [] r.ret = "OutOfMemory" ->
                     /\ Store(Self)
                     /\ calls' = <<"update", "render">>
                     /\ control_flow' = "Exit"
                [] OTHER ->
                     /\ Store(Self)
                     /\ calls' = <<"update", "render", "eprintln">>
                     /\ UNCHANGED control_flow
           /\ presented' = IF r.submitted = <<>> THEN presented ELSE r.submitted
           /\ last' = [type |-> "RedrawRequested", result |-> r.ret]
    /\ redraw_requested' = FALSE
    /\ nupd' = nupd + 1
    /\ UNCHANGED <<window, before, nmotion, pointer>>

\* Event::RedrawRequested, get_current_frame() giving got
Redraw(got) ==
    /\ Running
    /\ redraw_requested
    /\ LET r == render(update(Self), got)
       IN  /\ CASE r.ret = "Ok" ->
                     /\ Store(r.self)
                     /\ calls' = <<"update", "render">>
                     /\ UNCHANGED control_flow
                [] r.ret = "Lost" ->
                     /\ Store(resize(r.self, r.self.size))
                     /\ calls' = <<"update", "render", "resize">>
                     /\ UNCHANGED control_flow
                [] r.ret = "OutOfMemory" ->
                     /\ Store(r.self)
                     /\ calls' = <<"update", "render">>
                     /\ control_flow' = "Exit"
                [] OTHER ->
                     /\ Store(r.self)
                     /\ calls' = <<"update", "render", "eprintln">>
                     /\ UNCHANGED control_flow
           /\ presented' = IF r.submitted = <<>> THEN presented ELSE r.submitted
           /\ last' = [type |-> "RedrawRequested", result |-> r.ret]
    /\ redraw_requested' = FALSE
    /\ nupd' = nupd + 1
    /\ UNCHANGED <<window, before, nmotion, pointer>>

RedrawRequested ==
    /\ nupd < MaxTicks
    /\ \E got \in FrameResults : Redraw(got)
    /\ UNCHANGED frames

Next ==
    \/ KeyboardEvent
    \/ CloseRequested
    \/ MouseInput
    \/ Resized
    \/ ScaleFactorChanged
    \/ CursorMoved
    \/ DeviceMotion
    \/ DeviceOther
    \/ MainEventsCleared
    \/ RedrawRequested

Spec == Init /\ [][Next]_vars

(* SpecFrames: the loop over several redraws, the result of each kept in    *)
(* frames, its events reduced to the forward key and resizes                *)

FramesKey == \E st \in KeyStates : OnWindowEvent(KeyboardInput(st, 17))

FramesRedraw ==
    /\ nupd < MaxUpdates
    /\ \E got \in FrameResults : Redraw(got) /\ frames' = Append(frames, got)

NextFrames ==
    \/ FramesKey
    \/ Resized
    \/ MainEventsCleared
    \/ FramesRedraw

SpecFrames == Init /\ [][NextFrames]_vars

\* the loop walking and turning: the forward key, pointer motions and
\* redraws
NextTurn ==
    \/ FramesKey
    \/ DeviceMotion
    \/ MainEventsCleared
    \/ FramesRedraw

SpecTurn == Init /\ [][NextTurn]_vars

----------------------------------------------------------------------------
(* Properties of update_camera, checked under SpecUpd *)

Updated == last.op = "update_camera"

Bit(b) == IF b THEN 1 ELSE 0

\* the net movement along the camera's forward, right and up axes
NetForward(self) == Bit(self.is_forward_pressed) - Bit(self.is_backward_pressed)

NetRight(self) == Bit(self.is_right_pressed) - Bit(self.is_left_pressed)

NetUp(self) == Bit(self.is_up_pressed) - Bit(self.is_down_pressed)

NoFlag(self) == \A f \in DOMAIN Flags(self) : ~Flags(self)[f]

\* C4: after any update_camera both accumulated deltas are zero, whatever the
\* flags and the deltas were; the update applied the deltas that were pending
\* (scaled by 0.001), and the update after it, with none received in between,
\* turns the camera no further.
C4_ResetLaw ==
    Updated =>
        /\ controller.angle_ground_delta = 0
        /\ controller.angle_up_delta = 0
        /\ camera.angle_ground =
              before.camera.angle_ground + before.controller.angle_ground_delta \div 1000
        /\ camera.angle_up =
              before.camera.angle_up + before.controller.angle_up_delta \div 1000
        /\ nupd >= 2 =>
              /\ camera.angle_ground = before.camera.angle_ground
              /\ camera.angle_up = before.camera.angle_up

\* a second update after one that applied a pending rotation of 0.2 rad to a
\* yaw of 0.1 rad
C4_Witness ==
    /\ Updated
    /\ nupd = 2
    /\ camera.angle_ground = 300000
    /\ controller.angle_ground_delta = 0
    /\ controller.is_forward_pressed

\* C7: when every axis cancels (forward = backward, left = right, up = down),
\* update_camera leaves the position unchanged, at every yaw.
C7_OppositesCancel ==
    ( /\ Updated
      /\ before.controller.is_forward_pressed = before.controller.is_backward_pressed
      /\ before.controller.is_left_pressed = before.controller.is_right_pressed
      /\ before.controller.is_up_pressed = before.controller.is_down_pressed )
    => camera.position = before.camera.position

\* all six flags pressed at a nonzero yaw
C7_Witness ==
    /\ Updated
    /\ \A f \in DOMAIN Flags(before.controller) : Flags(before.controller)[f]
    /\ before.camera.angle_ground # 0
    /\ camera.position = before.camera.position

\* C8: update_camera with no flag set and both deltas zero changes nothing in
\* the camera or the controller.
C8_IdleUpdateIsIdentity ==
    ( /\ Updated
      /\ NoFlag(before.controller)
      /\ before.controller.angle_ground_delta = 0
      /\ before.controller.angle_up_delta = 0 )
    => /\ camera = before.camera
       /\ controller = before.controller

\* the second of two idle updates, at a nonzero yaw and pitch
C8_Witness ==
    /\ Updated
    /\ nupd = 2
    /\ NoFlag(before.controller)
    /\ before.controller.angle_ground_delta = 0
    /\ before.controller.angle_up_delta = 0
    /\ camera.angle_ground # 0
    /\ camera.angle_up # 0
    /\ camera = before.camera

\* C9: update_camera moves the position by nothing when the net movement is
\* zero, and otherwise by  speed * v / |v|  with v the net movement vector
\* f * forward + r * right + u * up  (forward = (cos, sin, 0), right =
\* (sin, -cos, 0) at the yaw), whose squared length is f*f + r*r + u*u: a
\* step of length speed whatever the number of flags.  From (-10, 2, 1) at
\* yaw 0 with only forward pressed the position becomes (-9.8, 2, 1).
C9_ConstantSpeed ==
    Updated =>
        LET c == before.controller
            a == before.camera.angle_ground
            f == NetForward(c)
            r == NetRight(c)
            u == NetUp(c)
            n == f * f + r * r + u * u
            co == AngleCos(a)
            si == AngleSin(a)
            v == << Lin(f * co.c + r * si.c, f * co.s + r * si.s, f * co.k + r * si.k),
                    Lin(f * si.c - r * co.c, f * si.s - r * co.s, f * si.k - r * co.k),
                    Lin(0, 0, u) >>
            p == before.camera.position
        IN  /\ n = 0 => camera.position = p
            /\ n > 0 =>
                 /\ magnitude2(v) = n
                 /\ camera.position =
                       << NumAddLin(p[1], v[1], a, n, c.speed),
                          NumAddLin(p[2], v[2], a, n, c.speed),
                          NumAddLin(p[3], v[3], a, n, c.speed) >>
            /\ ( /\ a = 0
                 /\ p = <<Tenths(0 - 100), Tenths(20), Tenths(10)>>
                 /\ c.speed = 2
                 /\ f = 1 /\ r = 0 /\ u = 0 )
               => camera.position = <<Tenths(0 - 98), Tenths(20), Tenths(10)>>

\* forward, right and up pressed together at a nonzero yaw
C9_Witness ==
    /\ Updated
    /\ NetForward(before.controller) = 1
    /\ NetRight(before.controller) = 1
    /\ NetUp(before.controller) = 1
    /\ before.camera.angle_ground # 0
    /\ camera.position # before.camera.position

----------------------------------------------------------------------------
(* Properties of the event handlers of the controller *)

\* C5: an update turns the camera by the pointer motion received, with the
\* cursor captured, since the update before it: angle_ground changes by
\* -(sum of dx)/1000 rad and angle_up by -(sum of dy)/1000 rad, each captured
\* event counted once (dx = 100, dy = 0: angle_ground decreases by 0.1 rad,
\* angle_up is unchanged).
C5_MotionAppliedOnce ==
    Updated =>
        /\ camera.angle_ground * 1000 =
              before.camera.angle_ground * 1000 - Rad(before.pointer[1])
        /\ camera.angle_up * 1000 =
              before.camera.angle_up * 1000 - Rad(before.pointer[2])
        /\ before.pointer = <<100, 0>> =>
              /\ camera.angle_ground = before.camera.angle_ground - 100000
              /\ camera.angle_up = before.camera.angle_up

\* the second update, after two captured events (100, 0) and (-100, 100)
\* received since the first
C5_Witness ==
    /\ Updated
    /\ nupd = 2
    /\ before.nmotion = 2
    /\ before.pointer = <<0, 100>>
    /\ camera.angle_up = before.camera.angle_up - 100000

KeyHandled == last.op = "process_events"

\* C6: process_events on a keyboard event with scancode 57 (space), 42
\* (shift), 17 (forward), 30 (left), 31 (backward) or 32 (right) sets the up,
\* down, forward, left, backward or right flag to whether the key is pressed,
\* changes nothing else and returns true; on any other scancode or event it
\* returns false and changes nothing.
C6_KeyMapping ==
    KeyHandled =>
        LET e == last.event
            c == before.controller
            p == (e.state = "Pressed")
        IN  IF e.type = "KeyboardInput" /\ e.scancode \in {57, 42, 17, 30, 31, 32}
            THEN /\ last.ret
                 /\ controller =
                      CASE e.scancode = 57 -> [c EXCEPT !.is_up_pressed = p]
                        [] e.scancode = 42 -> [c EXCEPT !.is_down_pressed = p]
                        [] e.scancode = 17 -> [c EXCEPT !.is_forward_pressed = p]
                        [] e.scancode = 30 -> [c EXCEPT !.is_left_pressed = p]
                        [] e.scancode = 31 -> [c EXCEPT !.is_backward_pressed = p]
                        [] e.scancode = 32 -> [c EXCEPT !.is_right_pressed = p]
            ELSE /\ ~last.ret
                 /\ controller = c

\* the backward key released while all six flags were set and a pointer
\* motion was pending
C6_Witness ==
    /\ KeyHandled
    /\ last.event.type = "KeyboardInput"
    /\ last.event.scancode = 31
    /\ last.event.state = "Released"
    /\ \A f \in DOMAIN Flags(before.controller) : Flags(before.controller)[f]
    /\ before.controller.angle_ground_delta # 0
    /\ ~controller.is_backward_pressed
    /\ controller.is_left_pressed

----------------------------------------------------------------------------
(* Properties of the event loop, checked under Spec *)

EscapePress(e) ==
    e.type = "KeyboardInput" /\ e.state = "Pressed" /\ e.virtual_keycode = "Escape"

LeftPress(e) ==
    e.type = "MouseInput" /\ e.button = "Left" /\ e.state = "Pressed"

\* C1: while the pointer is released and no turn is pending, a pointer-motion
\* event or a redraw (whose update runs update_camera) leaves the camera's
\* two angles and the controller's two deltas as they were.
C1_ReleasedMotionIgnored ==
    [][ ( /\ ~Captured
          /\ controller.angle_ground_delta = 0
          /\ controller.angle_up_delta = 0
          /\ last'.type \in {"MouseMotion", "RedrawRequested"} )
        => /\ camera'.angle_ground = camera.angle_ground
           /\ camera'.angle_up = camera.angle_up
           /\ controller'.angle_ground_delta = controller.angle_ground_delta
           /\ controller'.angle_up_delta = controller.angle_up_delta ]_vars

\* C2: the pointer is captured at startup; an Escape key-press releases it,
\* a left-button press while it is released captures it, and every event
\* that is neither an Escape key-press nor a left-button press leaves the
\* pointer as hidden as it was and, where the grab agreed with the mode, as
\* grabbed as it was.
C2_CaptureTransitions ==
    /\ Captured
    /\ [][ LET e == last'
           IN  /\ EscapePress(e) => ~Captured'
               /\ (LeftPress(e) /\ ~Captured) => Captured'
               /\ ~(EscapePress(e) \/ LeftPress(e)) =>
                     /\ window'.cursor_visible = window.cursor_visible
                     /\ (window.cursor_grab = Captured) =>
                           window'.cursor_grab = window.cursor_grab ]_vars

\* C3: an Escape key-press handled while the pointer is captured leaves it
\* released, visible and at the midpoint (width/2, height/2) of the window.
C3_EscapeRecentres ==
    [][ (Captured /\ EscapePress(last'))
        => /\ ~Captured'
           /\ window'.cursor_visible
           /\ window'.cursor_position =
                 <<state'.size[1] \div 2, state'.size[2] \div 2>> ]_vars

\* a redraw whose draw was submitted has just been served
Drawn == last.type = "RedrawRequested" /\ last.result = "Ok"

\* C10: the draw of a redraw reads from the uniform buffer the matrix
\* correction * projection * view of the camera as that redraw's update left
\* it (position, angles) and with the aspect of the size stored by the most
\* recent resize; no upload is left pending and the target has that size.
C10_DrawReadsCurrentCamera ==
    Drawn =>
        /\ presented # <<>>
        /\ presented[1].uniform.view_proj =
              [ l  |-> "OPENGL_TO_WGPU_MATRIX",
                op |-> "mul",
                r  |-> [ l  |-> [ aspect |-> Ratio(state.size[1], state.size[2]),
                                  fovy |-> camera.fovy,
                                  znear |-> camera.znear,
                                  zfar |-> camera.zfar, op |-> "perspective" ],
                         op |-> "mul",
                         r  |-> [ op |-> "look_at_rh", eye |-> camera.position,
                                  dir |-> look_direction(camera),
                                  up |-> "unit_z" ] ] ]
        /\ presented[1].target = [width |-> state.size[1], height |-> state.size[2]]
        /\ state.queue = <<>>
        /\ state.uniform_buffer = presented[1].uniform

\* a draw after a resize to 1600x900, by a redraw whose update moved the
\* camera forward and turned it
C10_Witness ==
    /\ Drawn
    /\ state.size = <<1600, 900>>
    /\ controller.is_forward_pressed
    /\ camera.position # Camera_new(camera.aspect).position
    /\ camera.angle_ground # 0
    /\ presented # <<>>
    /\ presented[1].uniform.view_proj.r.l.aspect = [num |-> 16, den |-> 9]
    /\ presented[1].uniform.view_proj.r.r.eye = camera.position

\* C11: every submitted frame holds exactly two render passes on one target:
\* first the sky pass (6 indices, the uniform binding only), then the cube
\* pass (36 indices), which loads the target instead of clearing it.
C11_SkyThenCube ==
    presented # <<>> =>
        /\ Len(presented) = 2
        /\ presented[1].indices = 6
        /\ presented[1].bind_groups = <<"uniform_bind_group">>
        /\ presented[2].indices = 36
        /\ presented[2].load = "Load"
        /\ presented[2].target = presented[1].target

----------------------------------------------------------------------------
(* Properties of successive redraws, checked under SpecFrames *)

RedrawServed(l) == l.type = "RedrawRequested"

\* what a redraw whose frame is there must do: update, then one draw of the
\* camera as the update left it, every staged upload done
NormalFrame ==
    LET u == update(Self)
    IN  /\ calls' = <<"update", "render">>
        /\ camera' = u.camera
        /\ controller' = u.camera_controller
        /\ presented'[1].uniform = u.uniforms
        /\ presented'[1].target = state.swap_chain
        /\ state'.uniform_buffer = u.uniforms
        /\ state'.queue = <<>>

\* C12: a redraw whose draw reports the surface lost does not stop the loop:
\* after its update it rebuilds the swap chain with the stored size, leaving
\* the stored size, the camera and the controller as the update left them,
\* and the redraw after it updates and, given a frame, draws as usual.
C12_LostRecovery ==
    [][ /\ (RedrawServed(last') /\ last'.result = "Lost") =>
              LET u == update(Self)
              IN  /\ control_flow' = "Poll"
                  /\ ~redraw_requested'
                  /\ calls' = <<"update", "render", "resize">>
                  /\ state'.size = state.size
                  /\ state'.sc_desc = [width |-> state.size[1], height |-> state.size[2]]
                  /\ state'.swap_chain = state'.sc_desc
                  /\ camera' = u.camera
                  /\ controller' = u.camera_controller
        /\ ( /\ frames # <<>>
             /\ frames[Len(frames)] = "Lost"
             /\ RedrawServed(last') ) =>
              /\ camera' = update(Self).camera
              /\ last'.result = "Ok" => NormalFrame ]_vars

\* a frame drawn at 1600x900 by the redraw that followed a lost surface, the
\* camera moved forward by both updates
C12_Witness ==
    /\ frames = <<"Lost", "Ok">>
    /\ RedrawServed(last)
    /\ state.size = <<1600, 900>>
    /\ state.swap_chain = [width |-> 1600, height |-> 900]
    /\ controller.is_forward_pressed
    /\ camera.position[1] = Tenths(4 - 100)
    /\ presented # <<>>
    /\ presented[1].uniform.view_proj.r.r.eye = camera.position

\* a redraw whose draw reported an error that is neither lost nor
\* out-of-memory
Skipped(result) == result \in {"Outdated", "Timeout"}

\* C17: a redraw whose draw reports outdated or timeout skips the frame:
\* nothing is submitted or presented and the staged upload stays pending,
\* render is called once, the swap chain is not rebuilt and the loop goes
\* on; every redraw calls render exactly once; the redraw after a skipped
\* frame updates and, given a frame, draws as usual.
C17_SkippedFrame ==
    [][ /\ RedrawServed(last') =>
              Cardinality({i \in DOMAIN calls' : calls'[i] = "render"}) = 1
        /\ (RedrawServed(last') /\ Skipped(last'.result)) =>
              LET u == update(Self)
              IN  /\ presented' = presented
                  /\ state'.queue = Append(state.queue, u.uniforms)
                  /\ state'.uniform_buffer = state.uniform_buffer
                  /\ calls' = <<"update", "render", "eprintln">>
                  /\ state'.swap_chain = state.swap_chain
                  /\ state'.sc_desc = state.sc_desc
                  /\ state'.size = state.size
                  /\ control_flow' = "Poll"
                  /\ ~redraw_requested'
        /\ ( /\ frames # <<>>
             /\ Skipped(frames[Len(frames)])
             /\ RedrawServed(last') ) =>
              /\ controller' = update(Self).camera_controller
              /\ last'.result = "Ok" => NormalFrame ]_vars

\* a frame drawn by the redraw that followed a timeout, the camera moved
\* forward by both updates and nothing left pending
C17_Witness ==
    /\ frames = <<"Timeout", "Ok">>
    /\ RedrawServed(last)
    /\ calls = <<"update", "render">>
    /\ controller.is_forward_pressed
    /\ camera.position[1] = Tenths(4 - 100)
    /\ state.queue = <<>>
    /\ presented # <<>>
    /\ presented[1].uniform = state.uniforms

----------------------------------------------------------------------------
(* Further properties of the event loop, checked under Spec *)

\* C13: the loop has been told to exit exactly when the event handled last is
\* a close request or a redraw whose draw reported out-of-memory, whatever
\* the pointer and the controller were then; no other event or draw result
\* ends it.
C13_ExitOnlyOnCloseOrOutOfMemory ==
    (control_flow = "Exit") <=>
        \/ last.type = "CloseRequested"
        \/ last.type = "RedrawRequested" /\ last.result = "OutOfMemory"

\* a close request that arrived with the pointer released, its grab still
\* held after a failed release, and the forward key down
C13_Witness ==
    /\ control_flow = "Exit"
    /\ last.type = "CloseRequested"
    /\ ~Captured
    /\ window.cursor_grab
    /\ controller.is_forward_pressed

SizeChanged(l) == l.type \in {"Resized", "ScaleFactorChanged"}

\* C14: once a resize event with size (w, h) is handled the stored size is
\* (w, h), the swap chain is rebuilt at (w, h) and, for h > 0, camera.aspect
\* is exactly w / h (16/9 for 1600x900), with the pointer captured or not;
\* the update of every redraw computes the matrix with the aspect of the
\* stored size.
C14_ResizeSetsAspect ==
    /\ SizeChanged(last) =>
          LET w == last.size[1]
              h == last.size[2]
          IN  /\ state.size = <<w, h>>
              /\ state.sc_desc = [width |-> w, height |-> h]
              /\ state.swap_chain = [width |-> w, height |-> h]
              /\ h > 0 => /\ camera.aspect.den > 0
                          /\ camera.aspect.num * h = camera.aspect.den * w
              /\ <<w, h>> = <<1600, 900>> => camera.aspect = [num |-> 16, den |-> 9]
    /\ RedrawServed(last) =>
          /\ state.uniforms.view_proj.r.l.aspect = camera.aspect
          /\ state.size[2] > 0 =>
                camera.aspect.num * state.size[2] = camera.aspect.den * state.size[1]

\* a resize to 1600x900 handled with the pointer released, after a frame
\* was drawn at 800x600
C14_Witness ==
    /\ last.type = "Resized"
    /\ last.size = <<1600, 900>>
    /\ ~Captured
    /\ camera.aspect = [num |-> 16, den |-> 9]
    /\ presented # <<>>
    /\ presented[1].target = [width |-> 800, height |-> 600]

\* C15: in every reachable state camera.aspect is a well-defined number
\* greater than 0: a fraction with positive numerator and denominator.
C15_AspectPositive ==
    /\ camera.aspect.den > 0
    /\ camera.aspect.num > 0

\* C19: when set_cursor_grab fails in the Escape or the left-button arm
\* (the grab is left as it was), the pointer is still shown or hidden as
\* the transition prescribes, the failure is reported on stderr, and the
\* loop is not told to exit.
C19_CursorFailureReported ==
    [][ ( \/ EscapePress(last') /\ window.cursor_grab /\ window'.cursor_grab
          \/ LeftPress(last') /\ ~window.cursor_grab /\ ~window'.cursor_grab )
        => /\ EscapePress(last') => ~Captured'
           /\ LeftPress(last') => Captured'
           /\ control_flow' = "Poll"
           /\ \E i \in DOMAIN calls' : calls'[i] = "eprintln" ]_vars

\* C20: a resize, by a resize event or by the recovery of a lost surface,
\* changes no field of the camera but aspect and nothing of the controller:
\* position, both angles, the six flags and both deltas are what they were
\* before it (for the recovery: what the update of that redraw made them).
C20_ResizeOnlyAspect ==
    [][ /\ SizeChanged(last') =>
              /\ camera' = [camera EXCEPT !.aspect = camera'.aspect]
              /\ controller' = controller
        /\ (RedrawServed(last') /\ last'.result = "Lost") =>
              LET u == update(Self)
              IN  /\ camera' = [u.camera EXCEPT !.aspect = camera'.aspect]
                  /\ controller' = u.camera_controller ]_vars

\* a change to 1600x900 handled with the camera moved by an earlier update,
\* the forward key down and a turn pending
C20_Witness ==
    /\ last.type = "ScaleFactorChanged"
    /\ last.size = <<1600, 900>>
    /\ camera.aspect = [num |-> 16, den |-> 9]
    /\ camera.position # Camera_new(camera.aspect).position
    /\ controller.is_forward_pressed
    /\ controller.angle_ground_delta # 0
    /\ controller.angle_up_delta # 0

\* the pose of a camera: where it is and where it looks
Pose(cam) == <<cam.position, cam.angle_ground, cam.angle_up>>

\* C21: only a redraw, through its update, changes the pose of the camera:
\* a key, pointer-motion, mouse-button, resize or any other event, and with
\* them every showing or hiding of the pointer, leaves camera.position,
\* camera.angle_ground and camera.angle_up as they were, so the pose is
\* constant between two redraws.
C21_PoseOnlyByUpdate ==
    [][ ~RedrawServed(last') => Pose(camera') = Pose(camera) ]_vars

\* a pointer motion handled after a redraw moved the camera, the forward key
\* down and the pointer released: a turn is pending and the camera has not
\* turned
C21_Witness ==
    /\ last.type = "MouseMotion"
    /\ nupd = 1
    /\ ~Captured
    /\ controller.is_forward_pressed
    /\ controller.angle_ground_delta # 0
    /\ camera.angle_ground = 0
    /\ camera.angle_up = 0
    /\ camera.position[1] = Tenths(2 - 100)

----------------------------------------------------------------------------
(* Properties of the gated process_device_event, checked under SpecCtl *)

DeviceEventHandled == last.op = "process_device_event"

\* C16: process_device_event with is_cursor_captured false changes neither
\* delta nor any flag and returns false, for every pointer offset; with
\* is_cursor_captured true a pointer motion is consumed (true is returned,
\* the offsets subtracted from the deltas, the flags kept); an event that is
\* no pointer motion returns false and changes nothing.
C16_UncapturedMotionIsNoOp ==
    DeviceEventHandled =>
        LET c == before.controller
            e == last.event
        IN  /\ ~last.is_cursor_captured => (controller = c /\ ~last.ret)
            /\ (last.is_cursor_captured /\ e.type = "MouseMotion") =>
                  /\ last.ret
                  /\ Flags(controller) = Flags(c)
                  /\ controller.angle_ground_delta = c.angle_ground_delta - Rad(e.delta[1])
                  /\ controller.angle_up_delta = c.angle_up_delta - Rad(e.delta[2])
            /\ e.type # "MouseMotion" => (controller = c /\ ~last.ret)

\* a pointer motion of (-100, 100) refused with the cursor released, while
\* a turn was pending and all six flags were set
C16_Witness ==
    /\ DeviceEventHandled
    /\ ~last.is_cursor_captured
    /\ last.event = MouseMotion(<<0 - 100, 100>>)
    /\ ~last.ret
    /\ controller.angle_ground_delta # 0
    /\ \A f \in DOMAIN Flags(controller) : Flags(controller)[f]

----------------------------------------------------------------------------
(* A further property of update_camera, checked under SpecUpd *)

\* C18: an update with neither the up nor the down flag set leaves
\* camera.position.z as it was, at every yaw and pitch; the position an
\* update gives is the one it gives from the same camera with pitch 0; and
\* position.z changes only if the up or the down flag is set.
C18_LevelMovement ==
    Updated =>
        LET c == before.controller
            cam == before.camera
            level == [cam EXCEPT !.angle_up = 0]
        IN  /\ (~c.is_up_pressed /\ ~c.is_down_pressed) =>
                  camera.position[3] = cam.position[3]
            /\ camera.position = update_camera(c, level).camera.position
            /\ camera.position[3] # cam.position[3] =>
                  (c.is_up_pressed \/ c.is_down_pressed)

\* forward and left held, up and down not, at nonzero yaw and pitch: the
\* camera has moved and kept its height
C18_Witness ==
    /\ Updated
    /\ before.camera.angle_up # 0
    /\ before.camera.angle_ground # 0
    /\ before.controller.is_forward_pressed
    /\ before.controller.is_left_pressed
    /\ NetForward(before.controller) = 1
    /\ NetRight(before.controller) = 0 - 1
    /\ NetUp(before.controller) = 0
    /\ ~before.controller.is_up_pressed
    /\ camera.position[1] # before.camera.position[1]
    /\ camera.position[2] # before.camera.position[2]
    /\ camera.position[3] = before.camera.position[3]

----------------------------------------------------------------------------
(* A property of held keys across updates, checked under SpecFly *)

\* the last call handled a transition of the forward key
ForwardKeyHandled ==
    /\ KeyHandled
    /\ last.event.type = "KeyboardInput"
    /\ last.event.scancode = 17

----------------------------------------------------------------------------
(* A property of every redraw, drawn or not, checked under SpecTurn *)

\* the number of calls of f made by the last arm of the closure
Count(f, made) == Cardinality({i \in DOMAIN made : made[i] = f})

\* C23: every redraw calls update once and then render once, whatever
\* get_current_frame gives: the camera and the controller the update
\* computes are the ones kept, the move and the turn of a frame that was not
\* drawn included; the uniforms of the updated camera are written to the
\* queue once (and reach the buffer at once when the frame is drawn); and the
\* deltas are zero after the redraw, so that the next redraw turns the camera
\* only by what pointer motions have added since.
C23_UpdateKeptWhenDrawFails ==
    [][ RedrawServed(last') =>
          LET u == update(Self)
              c == controller
          IN  /\ Count("update", calls') = 1
              /\ Count("render", calls') = 1
              /\ calls'[1] = "update"
              /\ calls'[2] = "render"
              /\ nupd' = nupd + 1
              /\ Pose(camera') = Pose(u.camera)
              /\ controller' = u.camera_controller
              /\ camera'.angle_ground =
                    camera.angle_ground + c.angle_ground_delta \div 1000
              /\ camera'.angle_up =
                    camera.angle_up + c.angle_up_delta \div 1000
              /\ controller'.angle_ground_delta = 0
              /\ controller'.angle_up_delta = 0
              /\ (c.angle_ground_delta = 0 /\ c.angle_up_delta = 0) =>
                    /\ camera'.angle_ground = camera.angle_ground
                    /\ camera'.angle_up = camera.angle_up
              /\ c.is_forward_pressed =>
                    camera'.position # camera.position
              /\ state'.uniforms = u.uniforms
              /\ state'.uniforms = update_view_proj(state.uniforms, camera')
              /\ IF last'.result = "Ok"
                 THEN /\ state'.queue = <<>>
                      /\ state'.uniform_buffer = u.uniforms
                 ELSE /\ state'.queue = Append(state.queue, u.uniforms)
                      /\ state'.uniform_buffer = state.uniform_buffer ]_vars

\* two redraws with the forward key held and one pointer motion before the
\* first, whose frame timed out: the first moved along yaw 0 and turned, the
\* second was drawn, moved along the yaw the first had left and turned no
\* further
C23_Witness ==
    /\ RedrawServed(last)
    /\ frames = <<"Timeout", "Ok">>
    /\ nmotion = 1
    /\ controller.is_forward_pressed
    /\ camera.angle_ground = 0 - Rad(100) \div 1000
    /\ camera.angle_up = 0 - Rad(100) \div 1000
    /\ camera.position[1] =
          NumAddLin(Tenths(2 - 100), AngleCos(camera.angle_ground),
                    camera.angle_ground, 1, SpeedTenths)

====
